---------------------------- MODULE Spec2Model ----------------------------
(***************************************************************************)
(* Model of the volatility-surface code of volatilithings:                 *)
(*   svioptimizer.py  class SVI            (one smile, one maturity)       *)
(*   svisurface.py    class SVISurface     (slices stitched over maturity) *)
(*   vola_surface.py  class VolatilitySurface (explicit grid)              *)
(*                                                                         *)
(* Numbers.  The code computes in floating point.  Here a real number is   *)
(* a fixed-point integer counted in units of 1/Scale (smile parameters,    *)
(* log-moneyness, variances, vols), or an exact fraction [n, d] where the  *)
(* code divides (interpolation weights).  Maturities, strikes and grid     *)
(* vols are integers.  Rounding of IEEE doubles is not modelled.           *)
(*                                                                         *)
(* Three specifications share the variables, one per class under test:     *)
(*   Spec      an SVISurface object: fit, evaluate                         *)
(*   SpecSlice an SVI object: construction, svi_total_variance,            *)
(*             svi_implied_vol, optimize, evaluate                         *)
(*   SpecGrid  a VolatilitySurface object: construction, get_vol           *)
(***************************************************************************)
EXTENDS Integers, Sequences, FiniteSets, TLC

VARIABLES
    parameterization,   \* SVISurface.parameterization
    slices,             \* SVISurface.slices: maturity -> SVI object
    fitted_params,      \* SVISurface.fitted_params: maturity -> parameters
    requested,          \* history: maturities handed to fit so far
    svi,                \* the SVI object under test (SpecSlice)
    grid,               \* the VolatilitySurface object under test (SpecGrid)
    last                \* the most recent call, its arguments and outcome

vars == <<parameterization, slices, fitted_params, requested, svi, grid, last>>

---------------------------------------------------------------------------
(* Bounds of the model *)

\* fixed-point resolution: one unit is 1/Scale
Scale == 4
\* maturities of market data are 1..MaxMaturity; queries go one beyond
MaxMaturity == 3
\* log-moneyness queries are -MaxK..MaxK units
MaxK == 2
\* grid coordinates (strikes, maturities of the grid) are 1..MaxAxis
MaxAxis == 4

---------------------------------------------------------------------------
(* enums.py *)

RAW == "RAW"
NATURAL == "NATURAL"
JUMP_WING == "JUMP_WING"
SVIParameterizationType == {RAW, NATURAL, JUMP_WING}

---------------------------------------------------------------------------
(* Values and outcomes of a call *)

\* Python's None, an IEEE NaN, a number n/d, a parameter vector
NoneVal == [t |-> "None", n |-> 0, d |-> 1, p |-> <<>>]
NaN == [t |-> "nan", n |-> 0, d |-> 1, p |-> <<>>]
Frac(n, d) == [t |-> "num", n |-> n, d |-> d, p |-> <<>>]
Num(n) == Frac(n, 1)
Params(p) == [t |-> "params", n |-> 0, d |-> 1, p |-> p]

\* two values are the same number (fractions compared by cross-multiplying)
SameValue(v, w) ==
    /\ v.t = w.t
    /\ v.p = w.p
    /\ v.n * w.d = w.n * v.d

Return(v) == [raised |-> "none", val |-> v]
Raise(e) == [raised |-> e, val |-> NoneVal]

\* the errors the code can end a call with
NotFitted == "RuntimeError: not fitted"
ArityError == "TypeError: missing argument"
NoneOperand == "TypeError: NoneType operand"
UnboundBounds == "UnboundLocalError: bounds"
ShapeError == "ValueError: shape"
OutOfBounds == "ValueError: out of bounds"

NoObject == [made |-> FALSE]

Max(a, b) == IF a >= b THEN a ELSE b
Min(a, b) == IF a <= b THEN a ELSE b

---------------------------------------------------------------------------
(* Fixed-point arithmetic, in units of 1/Scale *)

\* floor of the square root of a natural number
ISqrt(n) == CHOOSE r \in 0..n : r * r <= n /\ (r + 1) * (r + 1) > n

\* x * y and sqrt(x) of fixed-point numbers
Mul(x, y) == (x * y) \div Scale
Sqrt(x) == ISqrt(x * Scale)

---------------------------------------------------------------------------
(* svioptimizer.py: class SVI *)

\* optimal_params = None
NoParams == <<>>

\* parameter vectors (a, b, rho, m, sigma) the model draws guesses and
\* optimizer results from
ParamChoices ==
    { <<0, Scale, 0, 0, Scale>>,
      <<Scale, 2 * Scale, -1, Scale, 2 * Scale>>,
      <<-Scale, 1, Scale - 1, -Scale, 1>> }

\* log-moneyness points of a query
KValues == (-MaxK)..MaxK

\* one maturity's market smile: (k array, iv array)
MarketSlices ==
    { <<(<<-1, 0, 1>>), (<<3, 2, 3>>)>>,
      <<(<<0, 1>>), (<<2, 3, 4>>)>> }

\* a constructor with a default initial guess
SVIInit_DefaultGuess(args) ==
    [raised |-> "none",
     obj |-> [made |-> TRUE,
              parameterization |-> args[1],
              initial_params |-> IF Len(args) >= 2 THEN args[2]
                                 ELSE <<0, Scale, 0, 0, Scale>>,
              optimal_params |-> NoParams,
              converged |-> FALSE]]

\* SVI(*args): __init__(self, parameterization, initial_params)
SVIInit(args) ==
    IF Len(args) # 2
    THEN [raised |-> ArityError, obj |-> NoObject]
    ELSE [raised |-> "none",
          obj |-> [made |-> TRUE,
                   parameterization |-> args[1],
                   initial_params |-> args[2],
                   optimal_params |-> NoParams,
                   converged |-> FALSE]]

\* the floor under the variance before the square root (1e-10 in the code:
\* the smallest positive number)
VarianceFloor == 1

svi_total_variance(self, params, k) ==
    IF self.parameterization = RAW
    THEN LET a == params[1]
             b == params[2]
             rho == params[3]
             m == params[4]
             sigma == params[5]
         IN Return(Num(a + Mul(b, Mul(rho, k - m)
                                  + Sqrt(Mul(k - m, k - m) + Mul(sigma, sigma)))))
    ELSE Return(NoneVal)   \* falls off the end of the method

svi_implied_vol(self, params, k) ==
    LET w == svi_total_variance(self, params, k)
    IN IF w.val.t = "None"
       THEN Raise(NoneOperand)   \* np.maximum(None, 1e-10)
       ELSE Return(Num(Sqrt(Max(w.val.n, VarianceFloor))))

\* the sum of squared errors over the market points; numpy refuses arrays of
\* different lengths (none of length 1)
RECURSIVE SumSq(_, _, _, _, _)
SumSq(self, params, k_market, iv_market, i) ==
    IF i > Len(k_market) THEN 0
    ELSE LET e == svi_implied_vol(self, params, k_market[i]).val.n - iv_market[i]
         IN e * e + SumSq(self, params, k_market, iv_market, i + 1)

BroadcastError == "ValueError: operands could not be broadcast"

mse_loss(self, params, k_market, iv_market) ==
    LET pred == svi_implied_vol(self, params, k_market[1])
    IN IF pred.raised # "none" THEN pred
       ELSE IF Len(k_market) # Len(iv_market)
                 /\ Len(k_market) # 1 /\ Len(iv_market) # 1
       THEN Raise(BroadcastError)
       ELSE Return(Frac(SumSq(self, params, k_market, iv_market, 1),
                        Len(k_market)))

\* the box the optimizer searches: (low, high) per parameter
BoundsRAW ==
    << <<-Scale, Scale>>,
       <<1, 10 * Scale>>,
       <<-(Scale - 1), Scale - 1>>,
       <<-5 * Scale, 5 * Scale>>,
       <<1, 5 * Scale>> >>

InBounds(p, bounds) ==
    \A i \in 1..5 : bounds[i][1] <= p[i] /\ p[i] <= bounds[i][2]

\* what scipy's minimize can hand back: a point of the box, with or without
\* having converged (result.success, which the code never reads)
MinimizeResults(bounds) ==
    [x : {p \in ParamChoices : InBounds(p, bounds)}, success : BOOLEAN]

\* optimize(k_market, iv_market), res the optimizer's result: the outcome of
\* the call, the object after it, and whether minimize was called
optimize(self, k_market, iv_market, res) ==
    IF self.parameterization # RAW
    THEN \* bounds was never assigned: the call of minimize is not reached
         [out |-> Raise(UnboundBounds), obj |-> self, minimized |-> FALSE]
    ELSE LET first == mse_loss(self, self.initial_params, k_market, iv_market)
         IN IF first.raised # "none"
            THEN [out |-> first, obj |-> self, minimized |-> TRUE]
            ELSE [out |-> Return(Params(res.x)),
                  obj |-> [self EXCEPT !.optimal_params = res.x,
                                       !.converged = res.success],
                  minimized |-> TRUE]

\* an evaluate that reads the initial guess instead of the fitted parameters
SVIEvaluate_InitialParams(self, k) ==
    IF self.optimal_params = NoParams
    THEN Raise(NotFitted)
    ELSE svi_implied_vol(self, self.initial_params, k)

\* evaluate(k)
SVIEvaluate(self, k) ==
    IF self.optimal_params = NoParams
    THEN Raise(NotFitted)
    ELSE svi_implied_vol(self, self.optimal_params, k)

---------------------------------------------------------------------------
(* svisurface.py: class SVISurface *)

\* the maturities market data can carry, and those a query can ask for
Maturities == 1..MaxMaturity
QueryMaturities == 0..(MaxMaturity + 1)

\* a dict with no entry
EmptyDict == [x \in {} |-> 0]

\* d[key] = value
Store(d, key, value) == (key :> value) @@ d

\* sorted(keys): the keys in ascending order
RECURSIVE Sorted(_)
Sorted(S) ==
    IF S = {} THEN <<>>
    ELSE LET lo == CHOOSE x \in S : \A y \in S : x <= y
         IN <<lo>> \o Sorted(S \ {lo})

\* market_data: a dict maturity -> (k array, iv array), as the sequence of
\* its items in insertion order (the order fit's loop visits them in)
RECURSIVE DictsOver(_)
DictsOver(keys) ==
    {<<>>} \cup
    UNION { { <<(<<T, data>>)>> \o rest : data \in MarketSlices,
                                         rest \in DictsOver(keys \ {T}) }
            : T \in keys }

MarketData == DictsOver(Maturities)

KeysOf(md) == { md[i][1] : i \in 1..Len(md) }

\* the calls of the optimizer a fit of md gets to make: none when the
\* construction of the first slice already raises
OptimizerCalls(param, md) ==
    IF SVIInit(<<param>>).raised # "none" THEN 0 ELSE Len(md)

\* the loop of fit from item i on; results[i] is what the optimizer hands
\* back for item i.  Yields the outcome of fit and the two dicts after it.
RECURSIVE FitLoop(_, _, _, _, _, _)
FitLoop(param, sl, fp, md, results, i) ==
    IF i > Len(md)
    THEN [out |-> Return(NoneVal), slices |-> sl, fitted_params |-> fp]
    ELSE LET T == md[i][1]
             k == md[i][2][1]
             iv == md[i][2][2]
             new == SVIInit(<<param>>)   \* SVI(self.parameterization)
         IN IF new.raised # "none"
            THEN [out |-> Raise(new.raised), slices |-> sl, fitted_params |-> fp]
            ELSE LET opt == optimize(new.obj, k, iv, results[i])
                 IN IF opt.out.raised # "none"
                    THEN [out |-> opt.out, slices |-> sl, fitted_params |-> fp]
                    ELSE FitLoop(param,
                                 Store(sl, T, opt.obj),
                                 Store(fp, T, opt.obj.optimal_params),
                                 md, results, i + 1)

\* (1 - weight) * iv1 + weight * iv2, weight a fraction
Interpolate(weight, iv1, iv2) ==
    Frac((weight.d - weight.n) * iv1.n * iv2.d + weight.n * iv2.n * iv1.d,
         weight.d * iv1.d * iv2.d)

\* evaluate(k, T) on a surface with the given dicts
SurfaceEvaluate(sl, fp, k, T) ==
    IF DOMAIN fp = {}
    THEN Raise(NotFitted)
    ELSE LET maturities == Sorted(DOMAIN sl)
             n == Len(maturities)
             between == { i \in 1..(n - 1) :
                            maturities[i] < T /\ T < maturities[i + 1] }
         IN IF T \in DOMAIN sl
            THEN SVIEvaluate(sl[T], k)
            ELSE IF between # {}
            THEN LET i == CHOOSE j \in between : \A h \in between : j <= h
                     T1 == maturities[i]
                     T2 == maturities[i + 1]
                     iv1 == SVIEvaluate(sl[T1], k)
                     iv2 == SVIEvaluate(sl[T2], k)
                 IN IF iv1.raised # "none" THEN iv1
                    ELSE IF iv2.raised # "none" THEN iv2
                    ELSE Return(Interpolate(Frac(T - T1, T2 - T1),
                                            iv1.val, iv2.val))
            ELSE IF T < maturities[1]
            THEN SVIEvaluate(sl[maturities[1]], k)
            ELSE IF T > maturities[n]
            THEN SVIEvaluate(sl[maturities[n]], k)
            ELSE Return(NoneVal)

Idle == [op |-> "none", out |-> Return(NoneVal)]

\* SVISurface(parameterization)
Init ==
    /\ parameterization \in SVIParameterizationType
    /\ slices = EmptyDict
    /\ fitted_params = EmptyDict
    /\ requested = {}
    /\ svi = NoObject
    /\ grid = NoObject
    /\ last = Idle

\* surface.fit(md)
Fit ==
    \E md \in MarketData :
      \E results \in [1..OptimizerCalls(parameterization, md)
                        -> MinimizeResults(BoundsRAW)] :
        LET done == FitLoop(parameterization, slices, fitted_params,
                            md, results, 1)
        IN /\ slices' = done.slices
           /\ fitted_params' = done.fitted_params
           /\ requested' = requested \cup KeysOf(md)
           /\ last' = [op |-> "fit", md |-> KeysOf(md), out |-> done.out]
           /\ UNCHANGED <<parameterization, svi, grid>>

\* surface.evaluate(k, T)
Evaluate ==
    \E k \in KValues, T \in QueryMaturities :
        /\ last' = [op |-> "evaluate", k |-> k, T |-> T,
                    out |-> SurfaceEvaluate(slices, fitted_params, k, T)]
        /\ UNCHANGED <<parameterization, slices, fitted_params, requested,
                       svi, grid>>

Next == Fit \/ Evaluate

Spec == Init /\ [][Next]_vars

---------------------------------------------------------------------------
(* An SVI object on its own *)

InitSlice ==
    /\ parameterization = RAW
    /\ slices = EmptyDict
    /\ fitted_params = EmptyDict
    /\ requested = {}
    /\ svi = NoObject
    /\ grid = NoObject
    /\ last = Idle

\* svi = SVI(parameterization, initial_params)
SliceNew ==
    /\ ~svi.made
    /\ \E p \in SVIParameterizationType, guess \in ParamChoices :
         LET new == SVIInit(<<p, guess>>)
         IN /\ svi' = new.obj
            /\ last' = [op |-> "SVI", out |-> Raise(new.raised)]
    /\ UNCHANGED <<parameterization, slices, fitted_params, requested, grid>>

\* svi.svi_total_variance(params, k)
SliceTotalVariance ==
    /\ svi.made
    /\ \E params \in ParamChoices, k \in KValues :
         last' = [op |-> "svi_total_variance", params |-> params, k |-> k,
                  out |-> svi_total_variance(svi, params, k)]
    /\ UNCHANGED <<parameterization, slices, fitted_params, requested,
                   svi, grid>>

\* svi.svi_implied_vol(params, k)
SliceImpliedVol ==
    /\ svi.made
    /\ \E params \in ParamChoices, k \in KValues :
         last' = [op |-> "svi_implied_vol", params |-> params, k |-> k,
                  out |-> svi_implied_vol(svi, params, k)]
    /\ UNCHANGED <<parameterization, slices, fitted_params, requested,
                   svi, grid>>

\* svi.optimize(k_market, iv_market)
SliceOptimize ==
    /\ svi.made
    /\ \E data \in MarketSlices, res \in MinimizeResults(BoundsRAW) :
         LET done == optimize(svi, data[1], data[2], res)
         IN /\ svi' = done.obj
            /\ last' = [op |-> "optimize", minimized |-> done.minimized,
                        out |-> done.out]
    /\ UNCHANGED <<parameterization, slices, fitted_params, requested, grid>>

\* svi.evaluate(k)
SliceEvaluate ==
    /\ svi.made
    /\ \E k \in KValues :
         last' = [op |-> "evaluate", k |-> k, out |-> SVIEvaluate(svi, k)]
    /\ UNCHANGED <<parameterization, slices, fitted_params, requested,
                   svi, grid>>

NextSlice ==
    \/ SliceNew
    \/ SliceTotalVariance
    \/ SliceImpliedVol
    \/ SliceOptimize
    \/ SliceEvaluate

SpecSlice == InitSlice /\ [][NextSlice]_vars

---------------------------------------------------------------------------
(* vola_surface.py: class VolatilitySurface *)

RaggedError == "ValueError: inhomogeneous shape"
InterpolatorError == "ValueError: points and values differ in length"

\* strictly ascending sequences of at least two coordinates out of 1..MaxAxis
Axes == { Sorted(S) : S \in { X \in SUBSET (1..MaxAxis) : Cardinality(X) >= 2 } }

\* the points a query can ask for, one step beyond the grid on either side
QueryPoints == 0..(MaxAxis + 1)

\* volatility matrices: entry (i, j) from a seed <<base, di, dj, dij>>, every
\* shape up to MaxAxis x MaxAxis, and the same with a shortened last row
VolSeeds == { <<20, -3, 2, 1>>, <<10, 4, -1, 0>> }
VolEntry(seed, i, j) == seed[1] + seed[2] * i + seed[3] * j + seed[4] * i * j
Rectangular ==
    { [i \in 1..nr |-> [j \in 1..nc |-> VolEntry(seed, i, j)]] :
        nr \in 1..MaxAxis, nc \in 1..MaxAxis, seed \in VolSeeds }
VolMatrices ==
    Rectangular \cup
    { [m EXCEPT ![Len(m)] = SubSeq(m[Len(m)], 1, Len(m[1]) - 1)] :
        m \in { r \in Rectangular : Len(r) >= 2 /\ Len(r[1]) >= 2 } }

\* np.asarray(vol_matrix, dtype=float) refuses rows of different lengths
IsRagged(m) == \E i \in 1..Len(m) : Len(m[i]) # Len(m[1])

\* ndarray.shape of a matrix with rows of one length
Shape(m) == <<Len(m), Len(m[1])>>

\* RegularGridInterpolator((strikes, maturities), vols, method='linear',
\* bounds_error, fill_value): scipy refuses values whose shape is not the
\* lengths of the axes
RegularGridInterpolator(strikes, maturities, vols, bounds_error, fill_value) ==
    IF Shape(vols) # <<Len(strikes), Len(maturities)>>
    THEN [raised |-> InterpolatorError, obj |-> NoObject]
    ELSE [raised |-> "none",
          obj |-> [made |-> TRUE,
                   strikes |-> strikes,
                   maturities |-> maturities,
                   vols |-> vols,
                   bounds_error |-> bounds_error,
                   fill_value |-> fill_value]]

\* a shape check that compares the number of rows only
ShapeMismatch_RowsOnly(vols, strikes, maturities) ==
    Len(vols) # Len(strikes)

\* self._vols_np.shape != (len(strikes), len(maturities))
ShapeMismatch(vols, strikes, maturities) ==
    Shape(vols) # <<Len(strikes), Len(maturities)>>

\* VolatilitySurface(strikes, maturities, vol_matrix, extrapolate, fill_value)
VSInit(strikes, maturities, vol_matrix, extrapolate, fill_value) ==
    IF IsRagged(vol_matrix)
    THEN [raised |-> RaggedError, obj |-> NoObject]
    ELSE IF ShapeMismatch(vol_matrix, strikes, maturities)
    THEN [raised |-> ShapeError, obj |-> NoObject]
    ELSE RegularGridInterpolator(strikes, maturities, vol_matrix,
                                 ~extrapolate, fill_value)

\* the interval of an axis a coordinate is interpolated in, as scipy finds
\* it: i = searchsorted(axis, x) - 1 clipped to 0 .. len - 2 (1-based here),
\* and the normalised distance (x - axis[i]) / (axis[i+1] - axis[i])
IntervalOf(axis, x) ==
    LET below == Cardinality({ h \in 1..Len(axis) : axis[h] < x })
        i == Min(Max(below, 1), Len(axis) - 1)
    IN [i |-> i, n |-> x - axis[i], d |-> axis[i + 1] - axis[i]]

OutOfAxis(axis, x) == x < axis[1] \/ x > axis[Len(axis)]

\* linear interpolation that gives each corner the weight of the other
EvaluateLinear_Swapped(vols, s, m) ==
    Frac(  vols[s.i][m.i] * s.n * m.n
         + vols[s.i + 1][m.i] * (s.d - s.n) * m.n
         + vols[s.i][m.i + 1] * s.n * (m.d - m.n)
         + vols[s.i + 1][m.i + 1] * (s.d - s.n) * (m.d - m.n),
         s.d * m.d)

\* scipy's linear interpolation over the four corners of the cell: the sum of
\* corner value * weight, the weight the product over the axes of the
\* normalised distance (upper corner) or one minus it (lower corner)
EvaluateLinear(vols, s, m) ==
    Frac(  vols[s.i][m.i] * (s.d - s.n) * (m.d - m.n)
         + vols[s.i + 1][m.i] * s.n * (m.d - m.n)
         + vols[s.i][m.i + 1] * (s.d - s.n) * m.n
         + vols[s.i + 1][m.i + 1] * s.n * m.n,
         s.d * m.d)

\* a get_vol that checks the strike against the grid, not the maturity
VSGetVol_StrikeOnly(self, strike, maturity) ==
    IF self.bounds_error /\ OutOfAxis(self.strikes, strike)
    THEN Raise(OutOfBounds)
    ELSE Return(EvaluateLinear(self.vols,
                               IntervalOf(self.strikes, strike),
                               IntervalOf(self.maturities, maturity)))

\* get_vol(strike, maturity): float(self._interpolator([[strike, maturity]]))
VSGetVol(self, strike, maturity) ==
    LET outside == \/ OutOfAxis(self.strikes, strike)
                   \/ OutOfAxis(self.maturities, maturity)
    IN IF self.bounds_error /\ outside
       THEN Raise(OutOfBounds)
       ELSE IF ~self.bounds_error /\ outside /\ self.fill_value.t # "None"
       THEN Return(self.fill_value)
       ELSE Return(EvaluateLinear(self.vols,
                                  IntervalOf(self.strikes, strike),
                                  IntervalOf(self.maturities, maturity)))

InitGrid ==
    /\ parameterization = RAW
    /\ slices = EmptyDict
    /\ fitted_params = EmptyDict
    /\ requested = {}
    /\ svi = NoObject
    /\ grid = NoObject
    /\ last = Idle

\* grid = VolatilitySurface(strikes, maturities, vol_matrix, extrapolate,
\*                          fill_value)
GridNew ==
    /\ last = Idle   \* the constructor call the object under test comes from
    /\ \E strikes \in Axes, maturities \in Axes, vol_matrix \in VolMatrices,
          extrapolate \in BOOLEAN, fill_value \in {NaN, NoneVal} :
         LET new == VSInit(strikes, maturities, vol_matrix, extrapolate,
                           fill_value)
         IN /\ grid' = new.obj
            /\ last' = [op |-> "VolatilitySurface",
                        strikes |-> strikes, maturities |-> maturities,
                        vol_matrix |-> vol_matrix,
                        out |-> Raise(new.raised)]
    /\ UNCHANGED <<parameterization, slices, fitted_params, requested, svi>>

\* grid.get_vol(strike, maturity)
GridGetVol ==
    /\ grid.made
    /\ \E strike \in QueryPoints, maturity \in QueryPoints :
         last' = [op |-> "get_vol", strike |-> strike, maturity |-> maturity,
                  out |-> VSGetVol(grid, strike, maturity)]
    /\ UNCHANGED <<parameterization, slices, fitted_params, requested,
                   svi, grid>>

NextGrid == GridNew \/ GridGetVol

SpecGrid == InitGrid /\ [][NextGrid]_vars

---------------------------------------------------------------------------
(* Claims on SVISurface, checked under Spec *)

\* the neighbours of T among the maturities handed to fit
Below(T) == { x \in requested : x < T }
Above(T) == { x \in requested : x > T }
Highest(S) == CHOOSE x \in S : \A y \in S : y <= x
Lowest(S) == CHOOSE x \in S : \A y \in S : x <= y

\* the value of slice T of the surface at k, when the surface holds it
SliceValueIs(v, T, k) ==
    /\ T \in DOMAIN slices
    /\ SVIEvaluate(slices[T], k).raised = "none"
    /\ SameValue(v, SVIEvaluate(slices[T], k).val)

\* C1: with the RAW parameterization, fit(market_data) returns, and after it
\* every maturity of market_data is a key of slices and of fitted_params and
\* its slice holds fitted (non-None) optimal parameters.
C1_FitStoresEverySlice ==
    (last.op = "fit" /\ parameterization = RAW) =>
        /\ last.out.raised = "none"
        /\ \A T \in last.md :
              /\ T \in DOMAIN slices
              /\ T \in DOMAIN fitted_params
              /\ slices[T].optimal_params # NoParams

---------------------------------------------------------------------------
(* Claims on SVI, checked under SpecSlice *)

\* the error the specification asks of a parameterization without an
\* implementation; nothing in the code raises it
Unsupported == "unsupported parameterization"

\* C6: on an SVI built with NATURAL or JUMP_WING, svi_total_variance,
\* svi_implied_vol and optimize raise the unsupported-parameterization error;
\* none returns a value and optimize does not call the optimizer.
C6_UnsupportedParameterizationRaises ==
    (/\ svi.made
     /\ svi.parameterization # RAW
     /\ last.op \in {"svi_total_variance", "svi_implied_vol", "optimize"}) =>
        /\ last.out.raised = Unsupported
        /\ last.op = "optimize" => ~last.minimized

\* the SVI object has no fitted parameters
Unfitted == svi.optimal_params = NoParams

\* the step is a call of optimize that returned
OptimizeReturned ==
    /\ SliceOptimize
    /\ last'.op = "optimize"
    /\ last'.out.raised = "none"

\* evaluate on an unfitted object raises the not-fitted error; on a fitted
\* one it returns the implied vol of the fitted parameters at k
EvaluateFollowsLifecycle ==
    last.op = "evaluate" =>
        IF Unfitted
        THEN last.out.raised = NotFitted
        ELSE /\ last.out.raised = "none"
             /\ last.out.val.t = "num"
             /\ SameValue(last.out.val,
                          svi_implied_vol(svi, svi.optimal_params, last.k).val)

\* a new object is unfitted; it stays unfitted through every step that is
\* not a call of optimize that returned; a call of optimize that returns
\* leaves it fitted with the parameters returned; a fitted object stays
\* fitted
LifecycleStep ==
    /\ (~svi.made /\ svi'.made) => Unfitted'
    /\ (svi.made /\ Unfitted /\ ~OptimizeReturned) => Unfitted'
    /\ OptimizeReturned =>
          /\ ~Unfitted'
          /\ last'.out.val = Params(svi'.optimal_params)
    /\ (svi.made /\ ~Unfitted) => ~Unfitted'

\* C11: an SVI object is unfitted (optimal_params None, evaluate raising the
\* not-fitted error for every k) from construction until the first call of
\* optimize that returns, and fitted from then on: evaluate(k) returns the
\* implied vol of the fitted optimal_params and never raises the not-fitted
\* error again.
C11_TwoStateLifecycle ==
    /\ [](svi.made => EvaluateFollowsLifecycle)
    /\ [][LifecycleStep]_vars

\* evaluate on a fitted object returned a value that is the implied vol of
\* the fitted parameters and not that of the initial guess
C11_Witness ==
    /\ last.op = "evaluate"
    /\ svi.made
    /\ ~Unfitted
    /\ svi.optimal_params # svi.initial_params
    /\ last.out.raised = "none"
    /\ SameValue(last.out.val,
                 svi_implied_vol(svi, svi.optimal_params, last.k).val)
    /\ ~SameValue(last.out.val,
                  svi_implied_vol(svi, svi.initial_params, last.k).val)

---------------------------------------------------------------------------
(* Claims on VolatilitySurface, checked under SpecGrid *)

\* the matrix handed to the constructor does not have the shape of the grid
Misshapen(strikes, maturities, vol_matrix) ==
    \/ IsRagged(vol_matrix)
    \/ Shape(vol_matrix) # <<Len(strikes), Len(maturities)>>

\* C7: construction with a matrix whose shape is not (len(strikes),
\* len(maturities)) raises at once, with the shape error when the matrix is
\* rectangular, and yields no object; every constructed surface has a
\* matrix of the shape of its grid.
C7_ShapeMismatchFailsConstruction ==
    /\ grid.made =>
          /\ ~IsRagged(grid.vols)
          /\ Shape(grid.vols) = <<Len(grid.strikes), Len(grid.maturities)>>
    /\ (/\ last.op = "VolatilitySurface"
        /\ Misshapen(last.strikes, last.maturities, last.vol_matrix)) =>
          /\ ~grid.made
          /\ last.out.raised =
                IF IsRagged(last.vol_matrix) THEN RaggedError ELSE ShapeError

\* one strike more than maturities, and a rectangular matrix with the rows
\* of the grid and one column too few (4 strikes, 3 maturities, shape (4, 2)):
\* refused
C7_Witness ==
    /\ last.op = "VolatilitySurface"
    /\ ~IsRagged(last.vol_matrix)
    /\ Len(last.strikes) = Len(last.maturities) + 1
    /\ Len(last.vol_matrix) = Len(last.strikes)
    /\ Len(last.vol_matrix[1]) = Len(last.maturities) - 1
    /\ last.out.raised = ShapeError
    /\ ~grid.made

\* the query of the last get_vol lies outside the grid
QueryOutside ==
    \/ OutOfAxis(grid.strikes, last.strike)
    \/ OutOfAxis(grid.maturities, last.maturity)

\* C8 as claimed: get_vol raises the out-of-bounds error for a query outside
\* the grid, on every surface that can be constructed.
C8_OutsideAlwaysRaises ==
    (last.op = "get_vol" /\ QueryOutside) => last.out.raised = OutOfBounds

\* C8 as amended: on a surface constructed with extrapolate = False (the
\* default), get_vol raises the out-of-bounds error for a query whose strike
\* or maturity lies outside the grid, and returns no value for it; on one
\* constructed with extrapolate = True it does not raise, and returns
\* fill_value unless that is None.
C8_OutsideRaisesUnlessExtrapolating ==
    (last.op = "get_vol" /\ QueryOutside) =>
        /\ grid.bounds_error =>
              /\ last.out.raised = OutOfBounds
              /\ last.out.val = NoneVal
        /\ ~grid.bounds_error =>
              /\ last.out.raised = "none"
              /\ grid.fill_value # NoneVal => last.out.val = grid.fill_value

\* a query with the strike inside and the maturity beyond the grid was
\* refused
C8_Witness ==
    /\ last.op = "get_vol"
    /\ grid.bounds_error
    /\ ~OutOfAxis(grid.strikes, last.strike)
    /\ last.maturity > grid.maturities[Len(grid.maturities)]
    /\ last.out.raised = OutOfBounds

\* C9: get_vol at a grid node (strikes[i], maturities[j]) returns the stored
\* vol_matrix[i][j], on the boundary of the grid as inside it.
C9_NodeReturnsStoredVol ==
    last.op = "get_vol" =>
        \A i \in 1..Len(grid.strikes), j \in 1..Len(grid.maturities) :
            (last.strike = grid.strikes[i] /\ last.maturity = grid.maturities[j])
                => /\ last.out.raised = "none"
                   /\ SameValue(last.out.val, Num(grid.vols[i][j]))

\* a query at a node on the upper strike boundary and inside the maturity
\* axis returned the stored vol
C9_Witness ==
    /\ last.op = "get_vol"
    /\ Len(grid.maturities) >= 3
    /\ last.strike = grid.strikes[Len(grid.strikes)]
    /\ last.maturity = grid.maturities[2]
    /\ last.out.raised = "none"
    /\ SameValue(last.out.val, Num(grid.vols[Len(grid.strikes)][2]))

==========================================================================
